---- MODULE Spec2Model ----
(***************************************************************************)
(* A model of theo-mini: the scraper (scrapePage and its helpers), the     *)
(* extraction endpoint and the query endpoint.                             *)
(*                                                                         *)
(* A string is a sequence of symbols.  A symbol is one character that the  *)
(* code inspects (a blank, '-', '*', ':', '/') or a run of characters the  *)
(* code never looks into (a word, a field label).  Error messages and      *)
(* error codes, which the code only copies, are TLA+ strings.              *)
(***************************************************************************)
EXTENDS Integers, Sequences, FiniteSets, TLC

(***************************************************************************)
(* Program constants.                                                      *)
(***************************************************************************)
maxRetries == 3
browserRetryDelay == 1000
retryAttempts == 3
llmRetryDelay == 2000

defaultMode == "strict"
MODES == {"strict", "open"}

VALIDATION_ERROR == "VALIDATION_ERROR"
EXTRACTION_ERROR == "EXTRACTION_ERROR"
QUERY_ERROR == "QUERY_ERROR"

DEFAULT_FIELD_VALUE == <<"N/A">>
NotFound == <<"Not found">>

ABOUT_PATHS ==
    { <<"/", "about">>, <<"/", "about", "-us">>, <<"/", "company">>,
      <<"/", "mission">>, <<"/", "vision">>, <<"/", "who-we-are">>,
      <<"/", "our-story">>, <<"/", "team">> }

AboutMarker == "\n\n=== ABOUT PAGE CONTENT ===\n\n"
HtmlMarker == "\n\n<!-- ABOUT PAGE HTML -->\n\n"

(***************************************************************************)
(* JavaScript values.                                                      *)
(***************************************************************************)
Undefined == <<"#undefined">>
NonString == <<"#number">>
NoDetails == "#undefined"

Whitespace == {" ", "\n"}

IsString(v) == v \notin {Undefined, NonString}

\* !v for the values of the model: undefined and the empty string are falsy.
Falsy(v) == v \in {Undefined, <<>>}

RECURSIVE TrimStart(_)
TrimStart(s) ==
    IF s # <<>> /\ Head(s) \in Whitespace THEN TrimStart(Tail(s)) ELSE s

RECURSIVE TrimEnd(_)
TrimEnd(s) ==
    IF s # <<>> /\ s[Len(s)] \in Whitespace
    THEN TrimEnd(SubSeq(s, 1, Len(s) - 1))
    ELSE s

\* String.prototype.trim
Trim(s) == TrimEnd(TrimStart(s))

\* String.prototype.startsWith
StartsWith(s, p) == Len(s) >= Len(p) /\ SubSeq(s, 1, Len(p)) = p

\* String.prototype.includes
Includes(s, p) ==
    \E i \in 0..(Len(s) - Len(p)) : SubSeq(s, i + 1, i + Len(p)) = p

LowerOf(c) ==
    CASE c = "About" -> "about"
      [] c = "Team" -> "team"
      [] OTHER -> c

\* String.prototype.toLowerCase
toLowerCase(s) == [i \in 1..Len(s) |-> LowerOf(s[i])]

(***************************************************************************)
(* Thrown values.  keys is the set of the object's property names: the     *)
(* type guards of the code test the presence of properties.                *)
(***************************************************************************)
createErrorResponse(code, message, details) ==
    [ keys |-> {"code", "message", "details", "timestamp"},
      code |-> code, message |-> message, details |-> details ]

\* new Error(message), and the errors thrown by the browser, the model
\* client and the JSON parser
JsError(message) ==
    [ keys |-> {"name", "message", "stack"},
      code |-> "#undefined", message |-> message, details |-> NoDetails ]

NoError == [ keys |-> {}, code |-> "", message |-> "", details |-> "" ]

isApiError(e) == {"code", "message", "timestamp"} \subseteq e.keys

BrowserMsg == "net::ERR_NAME_NOT_RESOLVED"
CloseMsg == "browser.close: Target closed"
LlmMsg == "429 Rate limit exceeded"
JsonMsg == "Unexpected token < in JSON"
NullMsg == "Cannot destructure property of null"
InternalMsgs == {BrowserMsg, CloseMsg, LlmMsg, JsonMsg, NullMsg, "Invalid URL input"}

(***************************************************************************)
(* normalizeUrl                                                            *)
(***************************************************************************)
HttpsPrefix == <<"http", "s", ":", "/", "/">>

normalizeUrlThrows(u) == Falsy(u) \/ ~IsString(u)

normalizeUrl(u) == IF StartsWith(u, <<"http">>) THEN u ELSE HttpsPrefix \o u

(***************************************************************************)
(* isValidContent.  The symbols of a content text stand for runs of        *)
(* characters of a known length.                                           *)
(***************************************************************************)
minLength == 50
minSentences == 2
maxLength == 100000

loadingIndicators ==
    { <<"Loading", ".", ".", ".">>, <<"Please wait">>, <<"Loading">>,
      <<"Please wait", ".", ".", ".">> }

\* the characters of the class [.!?]
SentenceEnd == {".", "!", "?"}

\* the number of characters of a symbol
CharLen(c) ==
    CASE c = "w47" -> 47
      [] c = "w99998" -> 99998
      [] c = "Loading" -> 7
      [] c = "Please wait" -> 11
      [] OTHER -> 1

\* text.length
RECURSIVE StringLength(_)
StringLength(s) ==
    IF s = <<>> THEN 0 ELSE CharLen(Head(s)) + StringLength(Tail(s))

\* text.split(/[.!?]+/): done are the closed pieces, current the open piece,
\* inRun says that the previous character belongs to a separator
RECURSIVE SplitRuns(_, _, _, _)
SplitRuns(done, current, s, inRun) ==
    IF s = <<>>
    THEN Append(done, current)
    ELSE IF Head(s) \in SentenceEnd
    THEN IF inRun
         THEN SplitRuns(done, current, Tail(s), TRUE)
         ELSE SplitRuns(Append(done, current), <<>>, Tail(s), TRUE)
    ELSE SplitRuns(done, Append(current, Head(s)), Tail(s), FALSE)

\* A count of the pieces that keeps the blank ones.
sentencesOfUnfiltered(text) == Len(SplitRuns(<<>>, <<>>, text, FALSE))

\* text.split(/[.!?]+/).filter(s => s.trim().length > 0).length
sentencesOf(text) ==
    LET pieces == SplitRuns(<<>>, <<>>, text, FALSE) IN
    Cardinality({ i \in 1..Len(pieces) : Len(Trim(pieces[i])) > 0 })

\* CONTENT_VALIDATION.loadingIndicators.some(indicator => text.includes(indicator))
hasLoadingIndicators(text) ==
    \E indicator \in loadingIndicators : Includes(text, indicator)

isValidContent(text) ==
    IF Falsy(text) \/ ~ IsString(text) THEN FALSE
    ELSE IF StringLength(text) < minLength THEN FALSE
    ELSE IF StringLength(text) > maxLength THEN FALSE
    ELSE IF hasLoadingIndicators(text) THEN FALSE
    ELSE IF sentencesOf(text) < minSentences THEN FALSE
    ELSE TRUE

(***************************************************************************)
(* The inputs.                                                             *)
(***************************************************************************)
Reqs == {1, 2}

UrlStrings ==
    { <<>>,
      <<"example", ".com">>,
      <<"http", "bin", ".org">>,
      <<"http", "s", ":", "/", "/", "example", ".com">>,
      <<"http", "s", ":", "/", "/", "team", "work", ".com">>,
      <<"http", "s", ":", "/", "/", "example", ".com", "/", "About">> }

UrlValues == UrlStrings \cup {Undefined, NonString}

\* the url of the body of an extraction request
ExtractUrlValues ==
    { Undefined, NonString, <<>>,
      <<"example", ".com">>,
      <<"http", "s", ":", "/", "/", "example", ".com", "/", "About">> }

ModeValues == {"strict", "open", "fast", "#undefined"}

PageTexts == { <<>>, <<" ">>, <<"home">> }
AboutTexts == { <<>>, <<"about">> }

\* page.content(): the markup of a loaded page, never empty
PageHtmls == { <<"<html>home</html>">> }
AboutHtmls == { <<"<html>about</html>">> }

\* An anchor of the page: href is a.href, parses says whether new URL(href)
\* succeeds, pathname is the parsed URL's path.
Anchors ==
    { [href |-> "https://example.com/About", parses |-> TRUE,
       pathname |-> <<"/", "About">>],
      [href |-> "https://example.com/team", parses |-> TRUE,
       pathname |-> <<"/", "team">>],
      [href |-> "https://example.com/pricing", parses |-> TRUE,
       pathname |-> <<"/", "pricing">>],
      [href |-> "", parses |-> FALSE, pathname |-> <<>>] }

MaxAnchors == 2

AnchorLists == UNION { [1..n -> Anchors] : n \in 0..MaxAnchors }

QuestionValues == { Undefined, <<>>, <<"what?">> }
ContextValues == { Undefined, <<>>, <<"ctx">> }

ContentSymbols == {"a", ".", "?", " ", "Loading", "w47", "w99998"}

MaxContentSymbols == 4

\* the argument of isValidContent
ContentValues ==
    {Undefined, NonString}
    \cup UNION { [1..n -> ContentSymbols] : n \in 0..MaxContentSymbols }

\* message.content of a model reply to a query; Undefined is a null content
Answers == { Undefined, <<>>, <<" ", "\n">>, <<" ", "yes", " ">>, <<"no">> }

(***************************************************************************)
(* State.                                                                  *)
(***************************************************************************)
VARIABLES
    load,        \* the number of requests that arrive in this run
    kind,        \* per request: "none", "scrape", "extract", "business",
                 \* "query", "validate" or "page"
    pc,          \* the handler's position
    body,        \* the request body, the argument of a direct call
    mode,        \* the handler's local mode
    spc,         \* scrapePage's position
    url,         \* scrapePage's normalizedUrl
    browser,     \* scrapePage's local browser (0: undefined)
    retryCount,  \* scrapePage's retryCount
    pending,     \* the completion of the try/catch that finally will resume
    page,        \* the attempt's rawText, rawHtml, aboutLinks[0],
                 \* aboutPageText and aboutPageHtml
    sres,        \* scrapePage's outcome
    browsers,    \* every browser launched: owner, open, closes
    attempts,    \* history: chromium.launch() calls of the request
    sleeps,      \* history: the delays the request slept
    qRetryCount, \* the query handler's retryCount
    llmLog,      \* history: the model calls of the request with their outcome
    response,    \* the handler's response
    ui           \* the page: the state of the Home component

scrapeVars == <<spc, url, browser, retryCount, pending, page, sres, browsers,
                attempts>>
handlerVars == <<pc, body, mode, qRetryCount, llmLog, response>>
vars == <<load, kind, sleeps, scrapeVars, handlerVars, ui>>

NoBrowser == 0

NoResult ==
    [ rawText |-> <<>>, rawHtml |-> <<>>,
      sourceUrl |-> [url |-> <<>>, type |-> "none"] ]

NoPending == [ type |-> "none", result |-> NoResult, error |-> NoError ]
Returning(res) == [ type |-> "return", result |-> res, error |-> NoError ]
Throwing(e) == [ type |-> "throw", result |-> NoResult, error |-> e ]
Continuing == [ type |-> "next", result |-> NoResult, error |-> NoError ]
\* inside the catch block, before its delay: error is the caught value
Caught(e) == [ type |-> "caught", result |-> NoResult, error |-> e ]

NoPage ==
    [ rawText |-> <<>>, rawHtml |-> <<>>, aboutLink |-> "",
      aboutPageText |-> <<>>, aboutPageHtml |-> <<>> ]

NoBody ==
    [ json |-> "none", url |-> Undefined, question |-> Undefined,
      context |-> Undefined, mode |-> "#undefined", text |-> Undefined,
      anchors |-> <<>>, evalOk |-> TRUE, fields |-> <<>>,
      reply |-> << <<"#null">> >> ]

NoResponse == [ status |-> 0, type |-> "none" ]

\* The state of Home when it mounts.  error and extractedFields are null
\* (<<>>) or hold one value; at says whether a fetch is in flight; runs
\* counts the calls of handleExtract.
NoUi ==
    [ at |-> "idle", loading |-> FALSE, error |-> <<>>,
      extractedFields |-> <<>>, runs |-> 0 ]

Active == { r \in Reqs : kind[r] # "none" }

\* The next request arrives: the requests are numbered in the order of
\* their arrival.
Arrives(r) ==
    /\ kind[r] = "none"
    /\ Cardinality(Active) < load
    /\ r = Cardinality(Active) + 1

Init ==
    /\ load = 1
    /\ kind = [r \in Reqs |-> "none"]
    /\ pc = [r \in Reqs |-> "idle"]
    /\ body = [r \in Reqs |-> NoBody]
    /\ mode = [r \in Reqs |-> "#undefined"]
    /\ spc = [r \in Reqs |-> "idle"]
    /\ url = [r \in Reqs |-> <<>>]
    /\ browser = [r \in Reqs |-> NoBrowser]
    /\ retryCount = [r \in Reqs |-> 0]
    /\ pending = [r \in Reqs |-> NoPending]
    /\ page = [r \in Reqs |-> NoPage]
    /\ sres = [r \in Reqs |-> NoPending]
    /\ browsers = <<>>
    /\ attempts = [r \in Reqs |-> 0]
    /\ sleeps = [r \in Reqs |-> <<>>]
    /\ qRetryCount = [r \in Reqs |-> 0]
    /\ llmLog = [r \in Reqs |-> <<>>]
    /\ response = [r \in Reqs |-> NoResponse]
    /\ ui = NoUi

(***************************************************************************)
(* scrapePage: helpers.                                                    *)
(***************************************************************************)
\* A classification that takes every input for a homepage.
isHomepageAlways(normalizedUrl) == TRUE

\* const isHomepage = !ABOUT_PATHS.some(path => normalizedUrl.toLowerCase().includes(path))
isHomepage(normalizedUrl) ==
    ~ \E p \in ABOUT_PATHS : Includes(toLowerCase(normalizedUrl), p)

\* the filter of findAboutPageLinks
MatchesAbout(a) ==
    a.parses /\ \E p \in ABOUT_PATHS : Includes(toLowerCase(a.pathname), p)

RECURSIVE aboutHrefs(_)
aboutHrefs(anchors) ==
    IF anchors = <<>>
    THEN <<>>
    ELSE (IF MatchesAbout(Head(anchors)) THEN <<Head(anchors).href>> ELSE <<>>)
         \o aboutHrefs(Tail(anchors))

\* [...new Set(links)]: the first occurrence of each link, in order
RECURSIVE Unique(_)
Unique(s) ==
    IF s = <<>>
    THEN <<>>
    ELSE LET init == Unique(SubSeq(s, 1, Len(s) - 1))
             last == s[Len(s)]
         IN  IF \E i \in 1..Len(init) : init[i] = last
             THEN init
             ELSE Append(init, last)

\* The links as the filter leaves them, duplicates included.
findAboutPageLinksWithDuplicates(anchors, evalOk) ==
    IF evalOk THEN aboutHrefs(anchors) ELSE <<>>

\* evalOk: page.evaluate did not throw; a throw is caught and gives []
findAboutPageLinks(anchors, evalOk) ==
    IF evalOk THEN Unique(aboutHrefs(anchors)) ELSE <<>>

\* A result whose type says whether an about page was merged.
BuildResultTypeByMerge(normalizedUrl, rawText, rawHtml, aboutPageText, aboutPageHtml) ==
    [ rawText |->
          IF aboutPageText # <<>>
          THEN rawText \o <<AboutMarker>> \o aboutPageText
          ELSE rawText,
      rawHtml |->
          IF aboutPageHtml # <<>>
          THEN rawHtml \o <<HtmlMarker>> \o aboutPageHtml
          ELSE rawHtml,
      sourceUrl |->
          [ url |-> normalizedUrl,
            type |-> IF aboutPageText = <<>> /\ isHomepage(normalizedUrl)
                     THEN "homepage" ELSE "about" ] ]

\* the ScrapingResult of a successful attempt
BuildResult(normalizedUrl, rawText, rawHtml, aboutPageText, aboutPageHtml) ==
    [ rawText |->
          IF aboutPageText # <<>>
          THEN rawText \o <<AboutMarker>> \o aboutPageText
          ELSE rawText,
      rawHtml |->
          IF aboutPageHtml # <<>>
          THEN rawHtml \o <<HtmlMarker>> \o aboutPageHtml
          ELSE rawHtml,
      sourceUrl |->
          [ url |-> normalizedUrl,
            type |-> IF isHomepage(normalizedUrl) THEN "homepage" ELSE "about" ] ]

\* A test of the text that forgets to trim it.
NoContentUntrimmed(rawText) == rawText = <<>>

\* if (!rawText.trim())
NoContent(rawText) == Trim(rawText) = <<>>

\* while (retryCount < BROWSER_CONFIG.maxRetries)
LoopCondition(rc) == rc < maxRetries

\* A catch block that forgets retryCount++.
NextRetryCountForgotten(rc) == rc

\* retryCount++
NextRetryCount(rc) == rc + 1

\* if (retryCount >= BROWSER_CONFIG.maxRetries) throw error
RetriesExhausted(rc) == rc >= maxRetries

\* A finally block that never closes.
MustCloseNever(b) == FALSE

\* if (browser) await browser.close()
MustClose(b) == b # NoBrowser

\* the outer catch logs the error and throws it again
OuterCatch(error) == error

\* The head of the while loop: the next attempt calls chromium.launch(), and
\* after the loop the function throws.
LoopHead(r, rc) ==
    IF LoopCondition(rc)
    THEN /\ spc' = [spc EXCEPT ![r] = "launching"]
         /\ attempts' = [attempts EXCEPT ![r] = @ + 1]
         /\ sres' = sres
    ELSE /\ spc' = [spc EXCEPT ![r] = "done"]
         /\ attempts' = attempts
         /\ sres' = [sres EXCEPT ![r] =
                Throwing(OuterCatch(createErrorResponse(EXTRACTION_ERROR,
                    "Failed to scrape page after multiple attempts", NoDetails)))]

\* The call scrapePage(u), up to its first await.
ScrapeEnter(r, u) ==
    IF normalizeUrlThrows(u)
    THEN /\ spc' = [spc EXCEPT ![r] = "done"]
         /\ sres' = [sres EXCEPT ![r] =
                Throwing(OuterCatch(JsError("Invalid URL input")))]
         /\ UNCHANGED <<url, attempts>>
    ELSE /\ url' = [url EXCEPT ![r] = normalizeUrl(u)]
         /\ LoopHead(r, retryCount[r])

\* The catch block of an attempt, up to its await or its throw.
ScrapeCatch(r, error) ==
    LET rc == NextRetryCount(retryCount[r]) IN
    /\ retryCount' = [retryCount EXCEPT ![r] = rc]
    /\ IF RetriesExhausted(rc)
       THEN /\ spc' = [spc EXCEPT ![r] = "finally"]
            /\ pending' = [pending EXCEPT ![r] = Throwing(error)]
       ELSE /\ spc' = [spc EXCEPT ![r] = "sleep"]
            /\ pending' = [pending EXCEPT ![r] = Caught(error)]

\* return result
ScrapeReturn(r, result) ==
    /\ retryCount' = retryCount
    /\ spc' = [spc EXCEPT ![r] = "finally"]
    /\ pending' = [pending EXCEPT ![r] = Returning(result)]

(***************************************************************************)
(* scrapePage: one action per stretch between two awaits.                  *)
(***************************************************************************)
\* A browser variable that all the calls share.
LaunchedShared(r, b) == [q \in Reqs |-> b]

\* let browser: the variable is a local of the call
Launched(r, b) == [browser EXCEPT ![r] = b]

\* browser = await chromium.launch()
Launch(r) ==
    /\ spc[r] = "launching"
    /\ \/ /\ browsers' = Append(browsers,
                [owner |-> r, open |-> TRUE, closes |-> 0])
          /\ browser' = Launched(r, Len(browsers) + 1)
          /\ spc' = [spc EXCEPT ![r] = "page"]
          /\ UNCHANGED <<retryCount, pending>>
       \/ /\ ScrapeCatch(r, JsError(BrowserMsg))
          /\ UNCHANGED <<browsers, browser>>
    /\ UNCHANGED <<load, ui, kind, sleeps, url, page, sres, attempts, handlerVars>>

\* newPage, setExtraHTTPHeaders, goto, the robots.txt fetch, waitForSelector,
\* waitForFunction (its timeout is caught) and waitForTimeout
Navigate(r) ==
    /\ spc[r] = "page"
    /\ \/ /\ spc' = [spc EXCEPT ![r] = "extract"]
          /\ UNCHANGED <<retryCount, pending>>
       \/ ScrapeCatch(r, JsError(BrowserMsg))
    /\ UNCHANGED <<load, ui, kind, sleeps, url, browser, page, sres, browsers,
                   attempts, handlerVars>>

\* extractVisibleText, page.content(), the empty check and the classification
ExtractText(r) ==
    /\ spc[r] = "extract"
    /\ \/ /\ ScrapeCatch(r, createErrorResponse(EXTRACTION_ERROR,
                "Failed to extract text from page", BrowserMsg))
          /\ page' = page
       \/ /\ ScrapeCatch(r, JsError(BrowserMsg))
          /\ page' = page
       \/ \E rawText \in PageTexts, rawHtml \in PageHtmls :
            /\ page' = [page EXCEPT ![r] =
                   [NoPage EXCEPT !.rawText = rawText, !.rawHtml = rawHtml]]
            /\ IF NoContent(rawText)
               THEN ScrapeCatch(r, createErrorResponse(EXTRACTION_ERROR,
                        "No content found on the page", NoDetails))
               ELSE IF isHomepage(url[r])
               THEN /\ spc' = [spc EXCEPT ![r] = "discover"]
                    /\ UNCHANGED <<retryCount, pending>>
               ELSE ScrapeReturn(r,
                        BuildResult(url[r], rawText, rawHtml, <<>>, <<>>))
    /\ UNCHANGED <<load, ui, kind, sleeps, url, browser, sres, browsers, attempts,
                   handlerVars>>

\* findAboutPageLinks and the test of aboutLinks.length
Discover(r) ==
    /\ spc[r] = "discover"
    /\ \E anchors \in AnchorLists, evalOk \in BOOLEAN :
         LET aboutLinks == findAboutPageLinks(anchors, evalOk) IN
         IF Len(aboutLinks) > 0
         THEN /\ page' = [page EXCEPT ![r].aboutLink = aboutLinks[1]]
              /\ spc' = [spc EXCEPT ![r] = "about"]
              /\ UNCHANGED <<retryCount, pending>>
         ELSE /\ ScrapeReturn(r, BuildResult(url[r], page[r].rawText,
                                page[r].rawHtml, <<>>, <<>>))
              /\ page' = page
    /\ UNCHANGED <<load, ui, kind, sleeps, url, browser, sres, browsers, attempts,
                   handlerVars>>

\* the second tab: newPage, goto, waitForSelector, extractVisibleText,
\* content, close
AboutFetch(r) ==
    /\ spc[r] = "about"
    /\ \/ /\ ScrapeCatch(r, JsError(BrowserMsg))
          /\ page' = page
       \/ /\ ScrapeCatch(r, createErrorResponse(EXTRACTION_ERROR,
                "Failed to extract text from page", BrowserMsg))
          /\ page' = page
       \/ \E aboutPageText \in AboutTexts, aboutPageHtml \in AboutHtmls :
            /\ page' = [page EXCEPT ![r].aboutPageText = aboutPageText,
                                    ![r].aboutPageHtml = aboutPageHtml]
            /\ ScrapeReturn(r, BuildResult(url[r], page[r].rawText,
                   page[r].rawHtml, aboutPageText, aboutPageHtml))
    /\ UNCHANGED <<load, ui, kind, sleeps, url, browser, sres, browsers,
                   attempts, handlerVars>>

\* await new Promise(resolve => setTimeout(resolve, BROWSER_CONFIG.retryDelay))
RetryDelay(r) ==
    /\ spc[r] = "sleep"
    /\ sleeps' = [sleeps EXCEPT ![r] = Append(@, browserRetryDelay)]
    /\ spc' = [spc EXCEPT ![r] = "finally"]
    /\ pending' = [pending EXCEPT ![r] = Continuing]
    /\ UNCHANGED <<load, ui, kind, url, browser, retryCount, page, sres, browsers,
                   attempts, handlerVars>>

\* The finally block, and what follows it: the return, the throw (through the
\* outer catch) or the next turn of the loop.  browser.close() may throw, and
\* its error then replaces the pending completion.
Finally(r) ==
    /\ spc[r] = "finally"
    /\ \E closeOk \in (IF MustClose(browser[r]) THEN BOOLEAN ELSE {TRUE}) :
         LET b == browser[r]
             done == IF closeOk
                     THEN pending[r]
                     ELSE Throwing(JsError(CloseMsg))
         IN  /\ browsers' =
                    IF MustClose(b)
                    THEN [browsers EXCEPT ![b].open = FALSE, ![b].closes = @ + 1]
                    ELSE browsers
             /\ pending' = [pending EXCEPT ![r] = NoPending]
             /\ IF done.type = "next"
                THEN LoopHead(r, retryCount[r])
                ELSE /\ spc' = [spc EXCEPT ![r] = "done"]
                     /\ attempts' = attempts
                     /\ sres' = [sres EXCEPT ![r] =
                            IF done.type = "throw"
                            THEN Throwing(OuterCatch(done.error))
                            ELSE done]
    /\ UNCHANGED <<load, ui, kind, sleeps, url, browser, retryCount, page,
                   handlerVars>>

\* A direct call of scrapePage with one of the urls.
ScrapeCallOf(r, urls) ==
    /\ Arrives(r)
    /\ \E u \in urls :
         /\ body' = [body EXCEPT ![r].url = u]
         /\ ScrapeEnter(r, u)
    /\ kind' = [kind EXCEPT ![r] = "scrape"]
    /\ pc' = [pc EXCEPT ![r] = "scraping"]
    /\ UNCHANGED <<load, ui, sleeps, browser, retryCount, pending, page, browsers,
                   mode, qRetryCount, llmLog, response>>

ScrapeCall(r) == ScrapeCallOf(r, UrlValues)

(***************************************************************************)
(* The query endpoint.                                                     *)
(***************************************************************************)
QueryBodies ==
    { [NoBody EXCEPT !.json = j] : j \in {"invalid", "null"} }
    \cup
    { [NoBody EXCEPT !.json = "object", !.question = q, !.context = c, !.mode = m] :
        q \in QuestionValues, c \in ContextValues, m \in ModeValues }

\* const { ..., mode = API_CONFIG.defaultMode } = await req.json()
modeOf(b) == IF b.mode = "#undefined" THEN defaultMode ELSE b.mode

\* A validation that forgets the context.
queryInvalidQuestionOnly(b) == Falsy(b.question)

\* if (!question || !context)
queryInvalid(b) == Falsy(b.question) \/ Falsy(b.context)

\* A catch block that throws again what is not an ApiError.
queryCatchRethrow(error) ==
    IF isApiError(error)
    THEN [ status |-> 500, type |-> "error", payload |-> error ]
    ELSE [ status |-> 0, type |-> "unhandled", payload |-> error ]

\* A catch block that wraps with the code of the other endpoint.
queryCatchOtherCode(error) ==
    [ status |-> 500, type |-> "error",
      payload |->
          IF isApiError(error)
          THEN error
          ELSE createErrorResponse(EXTRACTION_ERROR, "Failed to get an answer",
                                   error.message) ]

\* the handler's outer catch block
queryCatch(error) ==
    [ status |-> 500, type |-> "error",
      payload |->
          IF isApiError(error)
          THEN error
          ELSE createErrorResponse(QUERY_ERROR, "Failed to get an answer",
                                   error.message) ]

\* NextResponse.json(result)
querySuccess(answer) ==
    [ status |-> 200, type |-> "success",
      payload |-> [answer |-> answer, confidence |-> 80] ]

\* An answer that is not trimmed.
answerOfUntrimmed(content) == content

\* const answer = response.choices[0].message.content?.trim()
answerOf(content) == IF content = Undefined THEN Undefined ELSE Trim(content)

\* while (retryCount < LLM_CONFIG.retryAttempts)
queryLoopCondition(rc) == rc < retryAttempts

\* if (retryCount >= LLM_CONFIG.retryAttempts) throw error
queryRetriesExhausted(rc) == rc >= retryAttempts

\* LLM_CONFIG.temperature
temperature == [ strict |-> "0.15", open |-> "0.7" ]

\* the system prompts of the two endpoints, one for each mode
queryPrompts == [ strict |-> "queryPrompts.strict", open |-> "queryPrompts.open" ]
extractionPrompts ==
    [ strict |-> "extractionPrompts.strict", open |-> "extractionPrompts.open" ]

\* table[m]: undefined when the table has no such key
PropertyOf(table, m) == IF m \in DOMAIN table THEN table[m] ELSE "#undefined"

\* A model call whose temperature is that of the default mode.
LlmCallDefaultTemperature(prompts, m, none) ==
    [ mode |-> m, system |-> PropertyOf(prompts, m),
      temperature |-> PropertyOf(temperature, defaultMode),
      outcome |-> "pending", content |-> none ]

\* a model call of an endpoint: none is the content while the call is
\* pending or when it throws
LlmCall(prompts, m, none) ==
    [ mode |-> m, system |-> PropertyOf(prompts, m),
      temperature |-> PropertyOf(temperature, m),
      outcome |-> "pending", content |-> none ]

SetLast(log, outcome, content) ==
    [log EXCEPT ![Len(log)].outcome = outcome, ![Len(log)].content = content]

\* The head of the handler's while loop: the next model call, or the throw
\* after the loop.
QueryLoopHead(r, rc, m) ==
    IF queryLoopCondition(rc)
    THEN /\ llmLog' = [llmLog EXCEPT ![r] = Append(@, LlmCall(queryPrompts, m, Undefined))]
         /\ pc' = [pc EXCEPT ![r] = "llm"]
         /\ response' = response
    ELSE /\ llmLog' = llmLog
         /\ pc' = [pc EXCEPT ![r] = "done"]
         /\ response' = [response EXCEPT ![r] =
                queryCatch(createErrorResponse(QUERY_ERROR,
                    "Failed to get an answer after multiple attempts", NoDetails))]

\* The catch block of one attempt.
QueryAttemptCatch(r, error) ==
    LET rc == qRetryCount[r] + 1 IN
    /\ qRetryCount' = [qRetryCount EXCEPT ![r] = rc]
    /\ IF queryRetriesExhausted(rc)
       THEN /\ pc' = [pc EXCEPT ![r] = "done"]
            /\ response' = [response EXCEPT ![r] = queryCatch(error)]
       ELSE /\ pc' = [pc EXCEPT ![r] = "sleep"]
            /\ response' = response

\* A request arrives at POST /api/query.
QueryPOST(r) ==
    /\ Arrives(r)
    /\ \E b \in QueryBodies : body' = [body EXCEPT ![r] = b]
    /\ kind' = [kind EXCEPT ![r] = "query"]
    /\ pc' = [pc EXCEPT ![r] = "body"]
    /\ UNCHANGED <<load, ui, sleeps, scrapeVars, mode, qRetryCount, llmLog, response>>

\* await req.json(), the destructuring, the validation and the first call
QueryReadBody(r) ==
    /\ kind[r] = "query"
    /\ pc[r] = "body"
    /\ IF body[r].json # "object"
       THEN /\ response' = [response EXCEPT ![r] =
                   queryCatch(JsError(IF body[r].json = "invalid"
                                      THEN JsonMsg ELSE NullMsg))]
            /\ pc' = [pc EXCEPT ![r] = "done"]
            /\ UNCHANGED <<mode, llmLog>>
       ELSE /\ mode' = [mode EXCEPT ![r] = modeOf(body[r])]
            /\ IF queryInvalid(body[r])
               THEN /\ response' = [response EXCEPT ![r] =
                           queryCatch(createErrorResponse(VALIDATION_ERROR,
                               "Missing question or context",
                               "Both question and context are required"))]
                    /\ pc' = [pc EXCEPT ![r] = "done"]
                    /\ llmLog' = llmLog
               ELSE QueryLoopHead(r, qRetryCount[r], modeOf(body[r]))
    /\ UNCHANGED <<load, ui, kind, sleeps, scrapeVars, body, qRetryCount>>

\* The model call ends: it throws, or it answers.
QueryModelReply(r) ==
    /\ kind[r] = "query"
    /\ pc[r] = "llm"
    /\ \/ /\ llmLog' = [llmLog EXCEPT ![r] = SetLast(@, "throw", Undefined)]
          /\ QueryAttemptCatch(r, JsError(LlmMsg))
       \/ \E content \in Answers :
            /\ llmLog' = [llmLog EXCEPT ![r] = SetLast(@, "ok", content)]
            /\ IF Falsy(answerOf(content))
               THEN QueryAttemptCatch(r, createErrorResponse(QUERY_ERROR,
                        "No answer generated", NoDetails))
               ELSE /\ response' = [response EXCEPT ![r] =
                           querySuccess(answerOf(content))]
                    /\ pc' = [pc EXCEPT ![r] = "done"]
                    /\ qRetryCount' = qRetryCount
    /\ UNCHANGED <<load, ui, kind, sleeps, scrapeVars, body, mode>>

\* await new Promise(resolve => setTimeout(resolve, LLM_CONFIG.retryDelay)),
\* then the next turn of the loop
QuerySleep(r) ==
    /\ kind[r] = "query"
    /\ pc[r] = "sleep"
    /\ sleeps' = [sleeps EXCEPT ![r] = Append(@, llmRetryDelay)]
    /\ QueryLoopHead(r, qRetryCount[r], mode[r])
    /\ UNCHANGED <<load, ui, kind, scrapeVars, body, mode, qRetryCount>>

(***************************************************************************)
(* The extraction endpoint: parseExtractedFields.  A text is the sequence  *)
(* of its lines (text.split('\n')).                                        *)
(***************************************************************************)
MISSION_LABEL == "COMPANY MISSION/VISION"
PRODUCT_LABEL == "PRODUCT DESCRIPTION"
VALUE_LABEL == "UNIQUE VALUE PROPOSITION"

RegistryKeys == {"mission", "product", "value"}

UpperOf(c) ==
    CASE c = "Company Mission/Vision" -> MISSION_LABEL
      [] c = "x" -> "X"
      [] c = "y" -> "Y"
      [] c = "mission" -> "MISSION"
      [] c = "product" -> "PRODUCT"
      [] c = "value" -> "VALUE"
      [] OTHER -> c

\* String.prototype.toUpperCase
toUpperCase(s) == [i \in 1..Len(s) |-> UpperOf(s[i])]

\* the index of the first ':' of t, 0 when there is none
FirstColon(t) ==
    IF \E i \in 1..Len(t) : t[i] = ":"
    THEN CHOOSE i \in 1..Len(t) :
             t[i] = ":" /\ \A j \in 1..(i - 1) : t[j] # ":"
    ELSE 0

\* t.split(':')[0]
BeforeColon(t) ==
    IF FirstColon(t) = 0 THEN t ELSE SubSeq(t, 1, FirstColon(t) - 1)

\* The piece between the first ':' and the second.
AfterColonOnePiece(t) ==
    IF FirstColon(t) = 0
    THEN <<>>
    ELSE BeforeColon(SubSeq(t, FirstColon(t) + 1, Len(t)))

\* t.split(':').slice(1).join(':')
AfterColon(t) ==
    IF FirstColon(t) = 0 THEN <<>> ELSE SubSeq(t, FirstColon(t) + 1, Len(t))

\* t.replace(/^[-*]\s*/, '')
StripMarker(t) ==
    IF t # <<>> /\ Head(t) \in {"-", "*"} THEN TrimStart(Tail(t)) ELSE t

\* trimmedLine.startsWith('-') || trimmedLine.startsWith('*')
IsHeader(t) == StartsWith(t, <<"-">>) \/ StartsWith(t, <<"*">>)

\* the field name of a header line
fieldNameOf(t) == toUpperCase(Trim(BeforeColon(StripMarker(t))))

\* fields[k] = v
Put(f, k, v) == [x \in (DOMAIN f) \cup {k} |-> IF x = k THEN v ELSE f[x]]

\* if (currentField) fields[currentField] = currentValue.trim()
SaveField(st) ==
    IF st.currentField # <<>>
    THEN Put(st.fields, st.currentField, Trim(st.currentValue))
    ELSE st.fields

\* the body of the loop over the lines
ParseStep(st, line) ==
    LET trimmedLine == Trim(line) IN
    IF trimmedLine = <<>>
    THEN st
    ELSE IF IsHeader(trimmedLine)
    THEN [ fields |-> SaveField(st),
           currentField |-> fieldNameOf(trimmedLine),
           currentValue |-> Trim(AfterColon(trimmedLine)) ]
    ELSE [st EXCEPT !.currentValue = @ \o <<" ">> \o trimmedLine]

RECURSIVE ParseLines(_, _)
ParseLines(st, lines) ==
    IF lines = <<>>
    THEN st
    ELSE ParseLines(ParseStep(st, Head(lines)), Tail(lines))

parseExtractedFields(text) ==
    SaveField(ParseLines(
        [fields |-> <<>>, currentField |-> <<>>, currentValue |-> <<>>], text))

\* rawFields[label]
Lookup(rawFields, label) ==
    IF <<label>> \in DOMAIN rawFields THEN rawFields[<<label>>] ELSE Undefined

\* A field without its default.
fieldOfNoDefault(rawFields, label) == Lookup(rawFields, label)

\* rawFields[label] || 'Not found'
fieldOf(rawFields, label) ==
    IF Falsy(Lookup(rawFields, label)) THEN NotFound ELSE Lookup(rawFields, label)

\* const fields: ExtractionFields = { mission: ..., product: ..., value: ... }
typedFields(rawFields) ==
    [ mission |-> fieldOf(rawFields, MISSION_LABEL),
      product |-> fieldOf(rawFields, PRODUCT_LABEL),
      value |-> fieldOf(rawFields, VALUE_LABEL) ]

\* a null message.content
NullText == << <<"#null">> >>

\* A test that takes only null for an empty reply.
TextFalsyNullOnly(text) == text = NullText

\* !text for a text given by its lines
TextFalsy(text) == text \in {NullText, <<>>}

RECURSIVE DropBlankStart(_)
DropBlankStart(text) ==
    IF text # <<>> /\ Trim(Head(text)) = <<>>
    THEN DropBlankStart(Tail(text))
    ELSE text

RECURSIVE DropBlankEnd(_)
DropBlankEnd(text) ==
    IF text # <<>> /\ Trim(text[Len(text)]) = <<>>
    THEN DropBlankEnd(SubSeq(text, 1, Len(text) - 1))
    ELSE text

\* content?.trim() of a text given by its lines; the empty text is <<>>
TrimText(text) ==
    IF text = NullText
    THEN NullText
    ELSE LET a == DropBlankEnd(DropBlankStart(text)) IN
         [ i \in 1..Len(a) |->
             IF i = 1 /\ i = Len(a) THEN Trim(a[i])
             ELSE IF i = 1 THEN TrimStart(a[i])
             ELSE IF i = Len(a) THEN TrimEnd(a[i])
             ELSE a[i] ]

(***************************************************************************)
(* The replies of the model to an extraction.                              *)
(***************************************************************************)
ReplyLines ==
    { <<"-", " ", MISSION_LABEL, ":", " ", "x">>,
      <<"*", "Company Mission/Vision", ":", "x", ":", "y">>,
      <<" ", "-", PRODUCT_LABEL, " ", ":", " ", "y", " ">>,
      <<"-", VALUE_LABEL, ":">>,
      <<VALUE_LABEL, ":", " ", "x">>,
      <<"*", "*", MISSION_LABEL, "*", "*", ":", " ", "x">>,
      <<"-">>,
      <<"x", " ", "y">>,
      <<" ">> }

MaxReplyLines == 2

\* message.content: null, or a text of at least one line
Replies ==
    {NullText} \cup UNION { [1..n -> ReplyLines] : n \in 1..MaxReplyLines }

(***************************************************************************)
(* The extraction endpoint: the handler.                                   *)
(***************************************************************************)
ExtractBodies ==
    { [NoBody EXCEPT !.json = j] : j \in {"invalid", "null"} }
    \cup
    { [NoBody EXCEPT !.json = "object", !.url = u, !.mode = m] :
        u \in ExtractUrlValues, m \in ModeValues }

\* A validation that takes only a missing url for invalid.
extractInvalidMissingOnly(b) == b.url = Undefined

\* if (!url)
extractInvalid(b) == Falsy(b.url)

\* the handler's outer catch block
extractCatch(error) ==
    [ status |-> 500, type |-> "error",
      payload |->
          IF isApiError(error)
          THEN error
          ELSE createErrorResponse(EXTRACTION_ERROR,
                   "Failed to extract information", error.message) ]

\* NextResponse.json(result)
extractSuccess(scrapingResult, m, fields) ==
    [ status |-> 200, type |-> "success",
      payload |->
          [ id |-> "id",
            metadata |-> [ sourceUrl |-> scrapingResult.sourceUrl, mode |-> m ],
            rawContent |-> scrapingResult.rawText,
            extractedFields |-> fields ] ]

\* A request arrives at POST /api/extract.
ExtractPOST(r) ==
    /\ Arrives(r)
    /\ \E b \in ExtractBodies : body' = [body EXCEPT ![r] = b]
    /\ kind' = [kind EXCEPT ![r] = "extract"]
    /\ pc' = [pc EXCEPT ![r] = "body"]
    /\ UNCHANGED <<load, ui, sleeps, scrapeVars, mode, qRetryCount, llmLog, response>>

\* await req.json(), the destructuring, the validation and the call of
\* scrapePage
ExtractReadBody(r) ==
    /\ kind[r] = "extract"
    /\ pc[r] = "body"
    /\ IF body[r].json # "object"
       THEN /\ response' = [response EXCEPT ![r] =
                   extractCatch(JsError(IF body[r].json = "invalid"
                                        THEN JsonMsg ELSE NullMsg))]
            /\ pc' = [pc EXCEPT ![r] = "done"]
            /\ UNCHANGED <<mode, spc, url, sres, attempts>>
       ELSE /\ mode' = [mode EXCEPT ![r] = modeOf(body[r])]
            /\ IF extractInvalid(body[r])
               THEN /\ response' = [response EXCEPT ![r] =
                           extractCatch(createErrorResponse(VALIDATION_ERROR,
                               "Missing URL", "URL is required"))]
                    /\ pc' = [pc EXCEPT ![r] = "done"]
                    /\ UNCHANGED <<spc, url, sres, attempts>>
               ELSE /\ ScrapeEnter(r, body[r].url)
                    /\ pc' = [pc EXCEPT ![r] = "scraping"]
                    /\ response' = response
    /\ UNCHANGED <<load, ui, kind, sleeps, browser, retryCount, pending, page,
                   browsers, body, qRetryCount, llmLog>>

\* await scrapePage(url) ends: its error goes to the catch block, its result
\* to the model call
ExtractScraped(r) ==
    /\ kind[r] = "extract"
    /\ pc[r] = "scraping"
    /\ spc[r] = "done"
    /\ IF sres[r].type = "throw"
       THEN /\ response' = [response EXCEPT ![r] = extractCatch(sres[r].error)]
            /\ pc' = [pc EXCEPT ![r] = "done"]
            /\ llmLog' = llmLog
       ELSE /\ llmLog' = [llmLog EXCEPT ![r] =
                   Append(@, LlmCall(extractionPrompts, mode[r], NullText))]
            /\ pc' = [pc EXCEPT ![r] = "llm"]
            /\ response' = response
    /\ UNCHANGED <<load, ui, kind, sleeps, scrapeVars, body, mode, qRetryCount>>

\* The model call ends: it throws, or it replies; the reply is parsed.
ExtractModelReply(r) ==
    /\ kind[r] = "extract"
    /\ pc[r] = "llm"
    /\ \/ /\ llmLog' = [llmLog EXCEPT ![r] = SetLast(@, "throw", NullText)]
          /\ response' = [response EXCEPT ![r] = extractCatch(JsError(LlmMsg))]
       \/ \E content \in Replies :
            LET extractedText == TrimText(content) IN
            /\ llmLog' = [llmLog EXCEPT ![r] = SetLast(@, "ok", content)]
            /\ response' = [response EXCEPT ![r] =
                   IF TextFalsy(extractedText)
                   THEN extractCatch(createErrorResponse(EXTRACTION_ERROR,
                            "No content extracted", NoDetails))
                   ELSE extractSuccess(sres[r].result, mode[r],
                            typedFields(parseExtractedFields(extractedText)))]
    /\ pc' = [pc EXCEPT ![r] = "done"]
    /\ UNCHANGED <<load, ui, kind, sleeps, scrapeVars, body, mode, qRetryCount>>

(***************************************************************************)
(* extractBusinessInfo and its parseExtractedFields, which splits the      *)
(* reply at the lines '=== LABEL ===' and gives the sections to the        *)
(* registry's fields by position.                                          *)
(***************************************************************************)
\* Object.entries(EXTRACTION_FIELDS), in the order of the registry
RegistryOrder == <<"mission", "product", "value">>

\* a line that /^=== .+ ===$/m matches
IsSectionHeader(line) ==
    /\ Len(line) >= 5
    /\ SubSeq(line, 1, 2) = <<"===", " ">>
    /\ SubSeq(line, Len(line) - 1, Len(line)) = <<" ", "===">>

\* the lines of a section as one string
RECURSIVE JoinLines(_)
JoinLines(lines) ==
    IF lines = <<>> THEN <<>>
    ELSE IF Len(lines) = 1 THEN Head(lines)
    ELSE Head(lines) \o <<"\n">> \o JoinLines(Tail(lines))

\* extractedText.split(/^=== .+ ===$/m): done are the closed pieces, current
\* the lines of the open piece
RECURSIVE SplitSections(_, _, _)
SplitSections(done, current, lines) ==
    IF lines = <<>>
    THEN Append(done, JoinLines(current))
    ELSE IF IsSectionHeader(Head(lines))
    THEN SplitSections(Append(done, JoinLines(current)), <<>>, Tail(lines))
    ELSE SplitSections(done, Append(current, Head(lines)), Tail(lines))

\* const sections = extractedText.split(...).slice(1)
sectionsOf(text) == Tail(SplitSections(<<>>, <<>>, text))

\* sections[index]?.trim() || ''
sectionAt(sections, index) ==
    IF index <= Len(sections) THEN Trim(sections[index]) ELSE <<>>

\* the parseExtractedFields of extractBusinessInfo
llmParseExtractedFields(text) ==
    LET sections == sectionsOf(text)
        at(key) == CHOOSE i \in 1..Len(RegistryOrder) : RegistryOrder[i] = key
    IN  [ key \in RegistryKeys |->
            IF sectionAt(sections, at(key)) = <<>>
            THEN DEFAULT_FIELD_VALUE
            ELSE sectionAt(sections, at(key)) ]

\* response.choices[0].message.content || ''
contentOrEmpty(content) == IF TextFalsy(content) THEN <<>> ELSE content

SectionLines ==
    { <<"===", " ", MISSION_LABEL, " ", "===">>,
      <<"===", " ", "x", " ", "===">>,
      <<" ", "===", " ", "x", " ", "===">>,
      <<"===", "x", "===">>,
      <<"x", " ">>,
      <<" ">> }

SectionReplies ==
    {NullText} \cup UNION { [1..n -> SectionLines] : n \in 1..MaxReplyLines }

\* the model call of extractBusinessInfo: a fixed prompt and temperature
BusinessLlmCall ==
    [ mode |-> "#undefined",
      system |-> "You are a precise business information extractor.",
      temperature |-> "0.1",
      outcome |-> "pending", content |-> NullText ]

\* A call of extractBusinessInfo(rawContent): the model is called.
BusinessCall(r) ==
    /\ Arrives(r)
    /\ kind' = [kind EXCEPT ![r] = "business"]
    /\ pc' = [pc EXCEPT ![r] = "llm"]
    /\ llmLog' = [llmLog EXCEPT ![r] = Append(@, BusinessLlmCall)]
    /\ UNCHANGED <<load, ui, sleeps, scrapeVars, body, mode, qRetryCount, response>>

\* The model call ends: its error is thrown again, its reply is parsed.
BusinessModelReply(r) ==
    /\ kind[r] = "business"
    /\ pc[r] = "llm"
    /\ \/ /\ llmLog' = [llmLog EXCEPT ![r] = SetLast(@, "throw", NullText)]
          /\ response' = [response EXCEPT ![r] =
                 [status |-> 0, type |-> "thrown", payload |-> JsError(LlmMsg)]]
       \/ \E content \in SectionReplies :
            /\ llmLog' = [llmLog EXCEPT ![r] = SetLast(@, "ok", content)]
            /\ response' = [response EXCEPT ![r] =
                   [ status |-> 0, type |-> "returned",
                     payload |-> llmParseExtractedFields(contentOrEmpty(content)) ]]
    /\ pc' = [pc EXCEPT ![r] = "done"]
    /\ UNCHANGED <<load, ui, kind, sleeps, scrapeVars, body, mode, qRetryCount>>

(***************************************************************************)
(* A call of isValidContent(text).                                         *)
(***************************************************************************)
ValidateContent(r) ==
    /\ Arrives(r)
    /\ \E text \in ContentValues :
         /\ body' = [body EXCEPT ![r].text = text]
         /\ response' = [response EXCEPT ![r] =
                [ status |-> 0, type |-> "returned",
                  payload |-> isValidContent(text) ]]
    /\ kind' = [kind EXCEPT ![r] = "validate"]
    /\ pc' = [pc EXCEPT ![r] = "done"]
    /\ UNCHANGED <<load, ui, sleeps, scrapeVars, mode, qRetryCount, llmLog>>

(***************************************************************************)
(* formatContext of the page, and the context it builds given to the       *)
(* parseExtractedFields of extractBusinessInfo.  The fields are the        *)
(* object's entries in the order of Object.entries.                        *)
(***************************************************************************)
\* The header and the value of an entry on one line.
formatEntryOneLine(entry) ==
    <<"===", " ">> \o toUpperCase(<<entry.key>>) \o <<" ", "===">> \o <<" ">>
    \o (IF Falsy(entry.value) THEN DEFAULT_FIELD_VALUE ELSE entry.value)

\* `=== ${key.toUpperCase()} ===\n${value || DEFAULT_FIELD_VALUE}`
formatEntry(entry) ==
    <<"===", " ">> \o toUpperCase(<<entry.key>>) \o <<" ", "===">> \o <<"\n">>
    \o (IF Falsy(entry.value) THEN DEFAULT_FIELD_VALUE ELSE entry.value)

\* Object.entries(fields).map(...).join('\n\n')
RECURSIVE formatContext(_)
formatContext(entries) ==
    IF entries = <<>> THEN <<>>
    ELSE IF Len(entries) = 1 THEN formatEntry(Head(entries))
    ELSE formatEntry(Head(entries)) \o <<"\n", "\n">>
         \o formatContext(Tail(entries))

\* the lines of a string; the pattern /^=== .+ ===$/m is matched against
\* each of them
RECURSIVE SplitLines(_, _)
SplitLines(current, str) ==
    IF str = <<>>
    THEN <<current>>
    ELSE IF Head(str) = "\n"
    THEN <<current>> \o SplitLines(<<>>, Tail(str))
    ELSE SplitLines(Append(current, Head(str)), Tail(str))

\* the values of a field
FieldValues ==
    { <<>>, <<"x">>, <<"x", " ">>, <<"N/A">>,
      <<"===", " ", "x", " ", "===">>,
      <<"x", "\n", "y">> }

\* the entries of an ExtractionFields object: every registry key once
FieldEntries ==
    { [ i \in 1..3 |-> [key |-> order[i], value |-> v[i]] ] :
        order \in { <<"mission", "product", "value">>,
                    <<"product", "mission", "value">> },
        v \in [1..3 -> FieldValues] }

FormatAndParse(r) ==
    /\ Arrives(r)
    /\ \E entries \in FieldEntries :
         /\ body' = [body EXCEPT ![r].fields = entries]
         /\ response' = [response EXCEPT ![r] =
                [ status |-> 0, type |-> "returned",
                  payload |-> llmParseExtractedFields(
                                  SplitLines(<<>>, formatContext(entries))) ]]
    /\ kind' = [kind EXCEPT ![r] = "roundtrip"]
    /\ pc' = [pc EXCEPT ![r] = "done"]
    /\ UNCHANGED <<load, ui, sleeps, scrapeVars, mode, qRetryCount, llmLog>>

(***************************************************************************)
(* The page: Home and its handleExtract.  What fetch('/api/extract') and   *)
(* res.json() give is one of the responses of the extraction handler, or   *)
(* a failure below the handler.                                            *)
(***************************************************************************)
MaxExtractions == 2

\* the url the user has typed
PageUrls == { <<>>, <<"example", ".com">> }

\* a response with a JSON body that is an object
JsonReply(resp) == [ settled |-> "object", status |-> resp.status, data |-> resp.payload ]

FetchOutcomes ==
    { JsonReply(extractCatch(createErrorResponse(VALIDATION_ERROR,
          "Missing URL", "URL is required"))),
      JsonReply(extractCatch(JsError(BrowserMsg))),
      JsonReply(extractSuccess(NoResult, "strict", typedFields(<<>>))),
      \* an object without message or extractedFields
      [ settled |-> "object", status |-> 500, data |-> [keys |-> {}] ],
      [ settled |-> "object", status |-> 200, data |-> [keys |-> {}] ],
      \* the body is the JSON null
      [ settled |-> "null", status |-> 200, data |-> [keys |-> {}] ],
      \* the body is not JSON: res.json() rejects
      [ settled |-> "not json", status |-> 404, data |-> [keys |-> {}] ],
      \* fetch rejects
      [ settled |-> "rejected", status |-> 0, data |-> [keys |-> {}] ] }

\* res.ok
Ok(status) == status >= 200 /\ status <= 299

\* name in data, for the object of a JSON body
HasProperty(data, name) ==
    IF "keys" \in DOMAIN data THEN name \in data.keys ELSE name \in DOMAIN data

\* the try block after the fetch and its catch block: the state setters
\* they call
AfterFetch(u, o) ==
    IF o.settled \in {"rejected", "not json", "null"}
    THEN [u EXCEPT !.error = <<"Network error. Please try again.">>]
    ELSE IF ~ Ok(o.status)
    THEN IF HasProperty(o.data, "message")
         THEN [u EXCEPT !.error = <<o.data.message>>]
         ELSE [u EXCEPT !.error = <<"Something went wrong">>]
    ELSE IF HasProperty(o.data, "extractedFields")
    THEN [u EXCEPT !.extractedFields = <<o.data.extractedFields>>]
    ELSE [u EXCEPT !.error = <<"Invalid response format">>]

\* Home mounts.
PageMount(r) ==
    /\ Arrives(r)
    /\ kind' = [kind EXCEPT ![r] = "page"]
    /\ ui' = NoUi
    /\ UNCHANGED <<load, sleeps, scrapeVars, handlerVars>>

\* A handleExtract that keeps the fields of the last extraction.
HandleExtractStartKeepsFields(u) ==
    [u EXCEPT !.loading = TRUE, !.error = <<>>, !.runs = @ + 1]

\* setLoading(true); setError(null); setExtractedFields(null)
HandleExtractStart(u) ==
    [u EXCEPT !.loading = TRUE, !.error = <<>>, !.extractedFields = <<>>,
              !.runs = @ + 1]

\* A click on Extract (the button is disabled while loading): handleExtract
\* up to its return for an empty url, or up to the await of fetch.
HandleExtract(r) ==
    /\ kind[r] = "page"
    /\ ui.at = "idle" /\ ~ ui.loading
    /\ ui.runs < MaxExtractions
    /\ \E u \in PageUrls :
         ui' = IF Falsy(u)
               THEN [HandleExtractStart(ui) EXCEPT
                        !.error = <<"Please enter a URL">>, !.loading = FALSE]
               ELSE [HandleExtractStart(ui) EXCEPT !.at = "fetching"]
    /\ UNCHANGED <<load, kind, sleeps, scrapeVars, handlerVars>>

\* The fetch settles: the rest of the try block, the catch block and the
\* finally block.
FetchSettles(r) ==
    /\ kind[r] = "page"
    /\ ui.at = "fetching"
    /\ \E o \in FetchOutcomes :
         ui' = [AfterFetch(ui, o) EXCEPT !.loading = FALSE, !.at = "idle"]
    /\ UNCHANGED <<load, kind, sleeps, scrapeVars, handlerVars>>

(***************************************************************************)
(* A call of the extraction endpoint's parseExtractedFields(text).         *)
(***************************************************************************)
ParseReply(r) ==
    /\ Arrives(r)
    /\ \E text \in Replies \ {NullText} :
         /\ body' = [body EXCEPT ![r].reply = text]
         /\ response' = [response EXCEPT ![r] =
                [ status |-> 0, type |-> "returned",
                  payload |-> parseExtractedFields(text) ]]
    /\ kind' = [kind EXCEPT ![r] = "parse"]
    /\ pc' = [pc EXCEPT ![r] = "done"]
    /\ UNCHANGED <<load, ui, sleeps, scrapeVars, mode, qRetryCount, llmLog>>

(***************************************************************************)
(* A call of findAboutPageLinks(baseUrl, page) for a page with the given   *)
(* anchors.                                                                *)
(***************************************************************************)
FindLinks(r) ==
    /\ Arrives(r)
    /\ \E anchors \in AnchorLists, evalOk \in BOOLEAN :
         /\ body' = [body EXCEPT ![r].anchors = anchors, ![r].evalOk = evalOk]
         /\ response' = [response EXCEPT ![r] =
                [ status |-> 0, type |-> "returned",
                  payload |-> findAboutPageLinks(anchors, evalOk) ]]
    /\ kind' = [kind EXCEPT ![r] = "links"]
    /\ pc' = [pc EXCEPT ![r] = "done"]
    /\ UNCHANGED <<load, ui, sleeps, scrapeVars, mode, qRetryCount, llmLog>>

Next ==
    \E r \in Reqs :
        \/ ScrapeCall(r)
        \/ Launch(r)
        \/ Navigate(r)
        \/ ExtractText(r)
        \/ Discover(r)
        \/ AboutFetch(r)
        \/ RetryDelay(r)
        \/ Finally(r)
        \/ ExtractPOST(r)
        \/ ExtractReadBody(r)
        \/ ExtractScraped(r)
        \/ ExtractModelReply(r)
        \/ BusinessCall(r)
        \/ BusinessModelReply(r)
        \/ QueryPOST(r)
        \/ QueryReadBody(r)
        \/ QueryModelReply(r)
        \/ QuerySleep(r)
        \/ ValidateContent(r)
        \/ FindLinks(r)
        \/ ParseReply(r)
        \/ FormatAndParse(r)
        \/ PageMount(r)
        \/ HandleExtract(r)
        \/ FetchSettles(r)

Spec == Init /\ [][Next]_vars

(***************************************************************************)
(* Two calls of scrapePage for the same about page, their steps            *)
(* interleaved at the awaits.                                              *)
(***************************************************************************)
InterleavedInit ==
    /\ load = 2
    /\ kind = [r \in Reqs |-> "none"]
    /\ pc = [r \in Reqs |-> "idle"]
    /\ body = [r \in Reqs |-> NoBody]
    /\ mode = [r \in Reqs |-> "#undefined"]
    /\ spc = [r \in Reqs |-> "idle"]
    /\ url = [r \in Reqs |-> <<>>]
    /\ browser = [r \in Reqs |-> NoBrowser]
    /\ retryCount = [r \in Reqs |-> 0]
    /\ pending = [r \in Reqs |-> NoPending]
    /\ page = [r \in Reqs |-> NoPage]
    /\ sres = [r \in Reqs |-> NoPending]
    /\ browsers = <<>>
    /\ attempts = [r \in Reqs |-> 0]
    /\ sleeps = [r \in Reqs |-> <<>>]
    /\ qRetryCount = [r \in Reqs |-> 0]
    /\ llmLog = [r \in Reqs |-> <<>>]
    /\ response = [r \in Reqs |-> NoResponse]
    /\ ui = NoUi

InterleavedUrls ==
    { <<"http", "s", ":", "/", "/", "example", ".com", "/", "About">> }

InterleavedNext ==
    \E r \in Reqs :
        \/ ScrapeCallOf(r, InterleavedUrls)
        \/ Launch(r)
        \/ Navigate(r)
        \/ ExtractText(r)
        \/ RetryDelay(r)
        \/ Finally(r)

InterleavedSpec == InterleavedInit /\ [][InterleavedNext]_vars

(***************************************************************************)
(* Properties.                                                             *)
(***************************************************************************)
BrowsersOf(r) == { b \in 1..Len(browsers) : browsers[b].owner = r }
OpenOf(r) == { b \in BrowsersOf(r) : browsers[b].open }

Scraping(r) == kind[r] \in {"scrape", "extract"}
InAttempt(r) == spc[r] \in {"launching", "page", "extract", "discover", "about"}

\* a model call that failed: it threw, or its content is null or blank
Failed(call) ==
    \/ call.outcome = "throw"
    \/ call.outcome = "ok" /\ (call.content = Undefined \/ Trim(call.content) = <<>>)

WellFormedError(p) ==
    /\ isApiError(p)
    /\ p.code \in {VALIDATION_ERROR, EXTRACTION_ERROR, QUERY_ERROR}
    /\ p.message # ""

WellFormedQuerySuccess(p) ==
    /\ DOMAIN p = {"answer", "confidence"}
    /\ IsString(p.answer) /\ p.answer # <<>>

WellFormedExtractSuccess(p) ==
    /\ DOMAIN p = {"id", "metadata", "rawContent", "extractedFields"}
    /\ DOMAIN p.extractedFields = RegistryKeys
    /\ DOMAIN p.metadata = {"sourceUrl", "mode"}

\* C1: a call of scrapePage has at most one browser open at any time, none
\* when an attempt is about to launch its browser, and none when the call has
\* ended (returned or thrown).
C1_BrowserReleased ==
    \A r \in Reqs :
        /\ Cardinality(OpenOf(r)) <= 1
        /\ spc[r] \in {"idle", "launching", "done"} => OpenOf(r) = {}

\* a call that launched three browsers and returned a result
C1_Witness ==
    \E r \in Reqs :
        /\ spc[r] = "done" /\ sres[r].type = "return"
        /\ Cardinality(BrowsersOf(r)) = 3
        /\ \A b \in BrowsersOf(r) : browsers[b].closes >= 1

\* C2: a call of scrapePage makes at most maxRetries attempts, each with at
\* most one browser of its own; an attempt other than the first runs only
\* after every earlier attempt failed and after one delay of 1000 ms per
\* failure; a successful attempt is the last one.
C2_AttemptsBounded ==
    \A r \in Reqs :
        Scraping(r) =>
            /\ attempts[r] <= maxRetries
            /\ Cardinality(BrowsersOf(r)) <= attempts[r]
            /\ \A i \in 1..Len(sleeps[r]) : sleeps[r][i] = browserRetryDelay
            /\ InAttempt(r) =>
                   /\ attempts[r] = retryCount[r] + 1
                   /\ Len(sleeps[r]) = retryCount[r]
            /\ pending[r].type = "return" => spc[r] = "finally"
            /\ (pending[r].type = "return" \/ sres[r].type = "return") =>
                   /\ attempts[r] = retryCount[r] + 1
                   /\ ~ InAttempt(r)

\* the third attempt is about to launch, after two failures and two delays
C2_Witness ==
    \E r \in Reqs :
        /\ spc[r] = "launching" /\ attempts[r] = 3
        /\ sleeps[r] = <<browserRetryDelay, browserRetryDelay>>

\* C3: when every attempt failed, scrapePage throws the EXTRACTION_ERROR
\* "Failed to scrape page after multiple attempts".
C3_ExhaustedError ==
    \A r \in Reqs :
        (spc[r] = "done" /\ sres[r].type = "throw" /\ attempts[r] = maxRetries
            /\ retryCount[r] = maxRetries) =>
            /\ isApiError(sres[r].error)
            /\ sres[r].error.code = EXTRACTION_ERROR
            /\ sres[r].error.message = "Failed to scrape page after multiple attempts"

\* C4: a handler that has ended has answered with a well-formed success
\* payload or with an error payload carrying code, message and timestamp,
\* and nothing is answered before the handler ends.
C4_AlwaysAPayload ==
    \A r \in Reqs :
        /\ (kind[r] \in {"extract", "query"} /\ pc[r] = "done") =>
              \/ /\ response[r].type = "error" /\ response[r].status = 500
                 /\ WellFormedError(response[r].payload)
              \/ /\ response[r].type = "success" /\ response[r].status = 200
                 /\ IF kind[r] = "query"
                    THEN WellFormedQuerySuccess(response[r].payload)
                    ELSE WellFormedExtractSuccess(response[r].payload)
        /\ pc[r] # "done" => response[r] = NoResponse

\* an extraction whose scrape threw a raw browser error, answered with the
\* wrapped error
C4_Witness ==
    \E r \in Reqs :
        /\ kind[r] = "extract" /\ pc[r] = "done"
        /\ sres[r].type = "throw" /\ ~ isApiError(sres[r].error)
        /\ response[r].type = "error"
        /\ response[r].payload.message = "Failed to extract information"

\* the fields have exactly the registry's keys, each value the sentinel or a
\* non-empty string
CompleteFields(fields) ==
    /\ DOMAIN fields = RegistryKeys
    /\ \A k \in RegistryKeys :
           \/ fields[k] = DEFAULT_FIELD_VALUE
           \/ IsString(fields[k]) /\ fields[k] # <<>>

\* C5: the extractedFields of a successful extraction (of the endpoint, and
\* of extractBusinessInfo) have exactly the keys of the registry, and each
\* value is the sentinel "N/A" or a non-empty string.
C5_FieldsComplete ==
    \A r \in Reqs :
        /\ (kind[r] = "extract" /\ response[r].type = "success") =>
               CompleteFields(response[r].payload.extractedFields)
        /\ (kind[r] = "business" /\ response[r].type = "returned") =>
               CompleteFields(response[r].payload)

\* a successful extraction with one field from the reply and one defaulted
C5_Witness ==
    \E r \in Reqs :
        /\ kind[r] = "extract" /\ response[r].type = "success"
        /\ response[r].payload.extractedFields.mission = <<"x">>
        /\ response[r].payload.extractedFields.value = NotFound

\* a reply text none of whose lines is a header line
NoHeaderLines(text) ==
    /\ text # NullText
    /\ TrimText(text) # <<>>
    /\ \A i \in 1..Len(text) : ~ IsHeader(Trim(text[i]))

\* C6: a non-blank reply without any header line gives a successful
\* extraction whose three fields are the sentinel "N/A".
C6_NoHeadersAllSentinel ==
    \A r \in Reqs :
        (kind[r] = "extract" /\ pc[r] = "done" /\ llmLog[r] # <<>>
            /\ llmLog[r][Len(llmLog[r])].outcome = "ok"
            /\ NoHeaderLines(llmLog[r][Len(llmLog[r])].content)) =>
            /\ response[r].type = "success"
            /\ response[r].payload.extractedFields =
                   [ mission |-> DEFAULT_FIELD_VALUE,
                     product |-> DEFAULT_FIELD_VALUE,
                     value |-> DEFAULT_FIELD_VALUE ]

\* C7: a query whose body is an object with an empty or missing question or
\* context is answered with a VALIDATION_ERROR, with no model call, no retry
\* and no delay.
C7_EmptyQueryRejected ==
    \A r \in Reqs :
        (kind[r] = "query" /\ body[r].json = "object"
            /\ (body[r].question \in {Undefined, <<>>}
                \/ body[r].context \in {Undefined, <<>>})) =>
            /\ llmLog[r] = <<>> /\ sleeps[r] = <<>> /\ qRetryCount[r] = 0
            /\ pc[r] \in {"body", "done"}
            /\ pc[r] = "done" =>
                   /\ response[r].type = "error"
                   /\ response[r].payload.code = VALIDATION_ERROR

\* a query with a question and an empty context, rejected
C7_Witness ==
    \E r \in Reqs :
        /\ kind[r] = "query" /\ pc[r] = "done"
        /\ body[r].question = <<"what?">> /\ body[r].context = <<>>
        /\ response[r].payload.code = VALIDATION_ERROR

\* C8: a query makes at most retryAttempts model calls; every call but the
\* last one failed; one delay of 2000 ms separates two consecutive calls;
\* a call with a non-blank answer ends the request with that answer,
\* trimmed.
C8_QueryRetries ==
    \A r \in Reqs :
        kind[r] = "query" =>
            LET log == llmLog[r] IN
            /\ Len(log) <= retryAttempts
            /\ \A i \in 1..(Len(log) - 1) : Failed(log[i])
            /\ Len(log) > 0 => Len(sleeps[r]) = Len(log) - 1
            /\ \A i \in 1..Len(sleeps[r]) : sleeps[r][i] = llmRetryDelay
            /\ response[r].type = "success" =>
                   /\ Len(log) > 0
                   /\ log[Len(log)].outcome = "ok"
                   /\ ~ Failed(log[Len(log)])
                   /\ response[r].payload.answer = Trim(log[Len(log)].content)
            /\ (Len(log) > 0 /\ log[Len(log)].outcome = "ok"
                    /\ ~ Failed(log[Len(log)])) =>
                   /\ pc[r] = "done"
                   /\ response[r].type = "success"

\* the third call answers " yes " after a thrown error and a blank answer
C8_Witness ==
    \E r \in Reqs :
        /\ kind[r] = "query" /\ response[r].type = "success"
        /\ Len(llmLog[r]) = 3
        /\ llmLog[r][1].outcome = "throw"
        /\ llmLog[r][2].outcome = "ok"
        /\ llmLog[r][3].content = <<" ", "yes", " ">>
        /\ response[r].payload.answer = <<"yes">>
        /\ sleeps[r] = <<llmRetryDelay, llmRetryDelay>>

\* C9: a query whose retryAttempts model calls all failed is answered with
\* an error payload of code QUERY_ERROR.
C9_ExhaustedQueryError ==
    \A r \in Reqs :
        (kind[r] = "query" /\ pc[r] = "done" /\ Len(llmLog[r]) = retryAttempts
            /\ \A i \in 1..Len(llmLog[r]) : Failed(llmLog[r][i])) =>
            /\ response[r].type = "error"
            /\ response[r].payload.code = QUERY_ERROR

\* three failed calls, the last one a thrown error of the model client
C9_Witness ==
    \E r \in Reqs :
        /\ kind[r] = "query" /\ pc[r] = "done" /\ Len(llmLog[r]) = 3
        /\ llmLog[r][2].outcome = "ok"
        /\ llmLog[r][3].outcome = "throw"
        /\ response[r].payload.details = LlmMsg

\* C10: a request whose mode is neither strict nor open is rejected by the
\* validation: no browser is launched and no model call is made for it.
C10_InvalidModeRejected ==
    \A r \in Reqs :
        (kind[r] \in {"extract", "query"} /\ body[r].json = "object"
            /\ body[r].mode \notin MODES \cup {"#undefined"}) =>
            /\ attempts[r] = 0
            /\ llmLog[r] = <<>>
            /\ pc[r] = "done" => response[r].payload.code = VALIDATION_ERROR

\* the normalized input URL contains one of the about fragments
InputIsAbout(r) ==
    \E p \in ABOUT_PATHS :
        \E i \in 0..(Len(url[r]) - Len(p)) :
            toLowerCase(SubSeq(url[r], i + 1, i + Len(p))) = p

\* the results of the call: the one its attempt is returning, the one it
\* has returned
ResultsOf(r) ==
    { c.result : c \in { c \in {pending[r], sres[r]} : c.type = "return" } }

\* C11: the type of every result of scrapePage is "about" when the input URL
\* matches an about pattern and "homepage" when it does not, whether or not
\* an about page was merged; for a homepage input whose first about link was
\* fetched and has text, rawText is the homepage text, the marker
\* "\n\n=== ABOUT PAGE CONTENT ===\n\n" and the about text.
C11_MergedText ==
    \A r \in Reqs :
        \A res \in ResultsOf(r) :
            /\ res.sourceUrl.type =
                   IF InputIsAbout(r) THEN "about" ELSE "homepage"
            /\ (~ InputIsAbout(r) /\ page[r].aboutLink # ""
                    /\ page[r].aboutPageText # <<>>) =>
                   /\ res.rawText = page[r].rawText
                          \o <<"\n\n=== ABOUT PAGE CONTENT ===\n\n">>
                          \o page[r].aboutPageText
                   /\ res.sourceUrl.type = "homepage"

\* a homepage whose about page was found and merged, returned
C11_Witness ==
    \E r \in Reqs :
        /\ spc[r] = "done" /\ sres[r].type = "return"
        /\ page[r].aboutLink = "https://example.com/About"
        /\ sres[r].result.rawText =
               <<"home", "\n\n=== ABOUT PAGE CONTENT ===\n\n", "about">>
        /\ sres[r].result.sourceUrl.type = "homepage"

\* C12: a call of scrapePage whose input URL matches an about pattern never
\* looks for about links and never fetches a second page, in any attempt;
\* its result has the type "about" and the text of that one page.
C12_AboutInputSinglePage ==
    \A r \in Reqs :
        (Scraping(r) /\ InputIsAbout(r)) =>
            /\ spc[r] \notin {"discover", "about"}
            /\ page[r].aboutLink = "" /\ page[r].aboutPageText = <<>>
            /\ \A res \in ResultsOf(r) :
                   /\ res.sourceUrl.type = "about"
                   /\ res.rawText = page[r].rawText

\* an about URL, returned by the second attempt
C12_Witness ==
    \E r \in Reqs :
        /\ spc[r] = "done" /\ sres[r].type = "return"
        /\ url[r] = <<"http", "s", ":", "/", "/", "example", ".com", "/", "About">>
        /\ attempts[r] = 2
        /\ sres[r].result.sourceUrl.type = "about"
        /\ sres[r].result.rawText = <<"home">>

\* C13: the rawText of every result of scrapePage is not empty after
\* trimming, and no result comes from a page whose visible text is empty
\* after trimming.
C13_NonEmptyText ==
    \A r \in Reqs :
        \A res \in ResultsOf(r) :
            /\ Trim(res.rawText) # <<>>
            /\ Trim(page[r].rawText) # <<>>

\* a page of blanks only: the call has thrown "No content found on the page"
C13_Witness ==
    \E r \in Reqs :
        /\ spc[r] = "done" /\ sres[r].type = "throw"
        /\ page[r].rawText = <<" ">>
        /\ sres[r].error.message = "No content found on the page"

\* C14: for a homepage input, a discovery or an about-page fetch that ends
\* without about text (no matching link, an error of the discovery, an error
\* of the fetch, an about page without text) ends the attempt with a result
\* whose rawText is the homepage text alone.
C14_AboutBestEffort ==
    [][ \A r \in Reqs :
          (spc[r] \in {"discover", "about"}
              /\ spc'[r] \notin {"discover", "about"}
              /\ page'[r].aboutPageText = <<>>) =>
              /\ pending'[r].type = "return"
              /\ pending'[r].result.rawText = page[r].rawText ]_vars

\* C15: an attempt that finds no content fails like any other: it is
\* followed by a delay and the next attempt while fewer than maxRetries
\* attempts failed; when it is the last attempt, scrapePage throws its
\* structured error of code EXTRACTION_ERROR.
C15_EmptyContentRetried ==
    [][ \A r \in Reqs :
          /\ (spc[r] = "extract" /\ pending'[r].type \in {"caught", "throw"}
                  /\ pending'[r].error.message = "No content found on the page") =>
                 /\ retryCount'[r] = retryCount[r] + 1
                 /\ attempts'[r] <= maxRetries
                 /\ IF retryCount'[r] < maxRetries
                    THEN spc'[r] = "sleep"
                    ELSE /\ spc'[r] = "finally"
                         /\ pending'[r].type = "throw"
                         /\ pending'[r].error.code = EXTRACTION_ERROR
          /\ (spc[r] = "finally" /\ pending[r].type = "throw"
                  /\ pending[r].error.message = "No content found on the page") =>
                 /\ spc'[r] = "done"
                 /\ sres'[r].type = "throw"
                 /\ isApiError(sres'[r].error)
                 /\ sres'[r].error.code = EXTRACTION_ERROR ]_vars

\* the input has one of the schemes http and https
HasHttpScheme(u) ==
    \/ StartsWith(u, <<"http", ":", "/", "/">>)
    \/ StartsWith(u, <<"http", "s", ":", "/", "/">>)

\* the input has no scheme
LacksScheme(u) == ~ Includes(u, <<":", "/", "/">>)

\* scrapePage was called for the request, with body[r].url
ScrapeCalled(r) == Scraping(r) /\ spc[r] # "idle"

\* C16: the normalized URL of a non-empty string without a scheme is
\* "https://" followed by the string; that of a string with the scheme http
\* or https is the string; normalizing the normalized URL changes nothing.
C16_NormalizeUrl ==
    \A r \in Reqs :
        (ScrapeCalled(r) /\ IsString(body[r].url) /\ body[r].url # <<>>) =>
            /\ LacksScheme(body[r].url) =>
                   url[r] = <<"http", "s", ":", "/", "/">> \o body[r].url
            /\ HasHttpScheme(body[r].url) => url[r] = body[r].url
            /\ normalizeUrl(url[r]) = url[r]

\* C17: an extraction whose body has no url, or an empty one, is answered
\* with a VALIDATION_ERROR and scrapePage is not called for it; a call of
\* scrapePage with an empty url or one that is not a string has thrown
\* "Invalid URL input" at once: no browser, no attempt, no retry, no delay.
C17_MissingUrlFailsFast ==
    \A r \in Reqs :
        /\ (kind[r] = "extract" /\ body[r].json = "object"
                /\ body[r].url \in {Undefined, <<>>}) =>
               /\ spc[r] = "idle" /\ attempts[r] = 0 /\ BrowsersOf(r) = {}
               /\ sleeps[r] = <<>> /\ llmLog[r] = <<>>
               /\ pc[r] \in {"body", "done"}
               /\ pc[r] = "done" =>
                      /\ response[r].type = "error"
                      /\ response[r].payload.code = VALIDATION_ERROR
        /\ (ScrapeCalled(r) /\ body[r].url \in {Undefined, <<>>, NonString}) =>
               /\ spc[r] = "done" /\ sres[r].type = "throw"
               /\ sres[r].error.message = "Invalid URL input"
               /\ attempts[r] = 0 /\ BrowsersOf(r) = {}
               /\ retryCount[r] = 0 /\ sleeps[r] = <<>>

\* an extraction with the url '' was answered with the VALIDATION_ERROR
C17_Witness ==
    \E r \in Reqs :
        /\ kind[r] = "extract" /\ pc[r] = "done"
        /\ body[r].json = "object" /\ body[r].url = <<>>
        /\ response[r].payload.message = "Missing URL"

\* the number of runs of sentence-ending punctuation in a text
PunctuationGroups(t) ==
    Cardinality({ i \in 1..Len(t) :
        t[i] \in {".", "!", "?"} /\ (i = 1 \/ t[i - 1] \notin {".", "!", "?"}) })

\* the number of stretches between runs of sentence-ending punctuation that
\* hold a character other than a blank: i is the first such character of
\* its stretch
NonBlankSegments(t) ==
    Cardinality({ i \in 1..Len(t) :
        /\ t[i] \notin {".", "!", "?", " ", "\n"}
        /\ \A j \in 1..(i - 1) :
              (\A k \in j..(i - 1) : t[k] \notin {".", "!", "?"}) =>
                  t[j] \in {" ", "\n"} })

HasIndicator(t) == \E i \in 1..Len(t) : t[i] \in {"Loading", "Please wait"}

\* C18 as stated: isValidContent returns a boolean; it is false for a text
\* shorter than 50 characters, for a text with a loading indicator and for
\* a text with fewer than 2 runs of sentence-ending punctuation, and true
\* for every other text of 50 to 100000 characters.
C18_ValidContentGroups ==
    \A r \in Reqs :
        kind[r] = "validate" =>
            LET t == body[r].text
                v == response[r].payload
            IN  /\ response[r].type = "returned" /\ v \in BOOLEAN
                /\ IsString(t) =>
                     /\ StringLength(t) < 50 => ~ v
                     /\ HasIndicator(t) => ~ v
                     /\ PunctuationGroups(t) < 2 => ~ v
                     /\ (StringLength(t) >= 50 /\ StringLength(t) <= 100000
                            /\ ~ HasIndicator(t) /\ PunctuationGroups(t) >= 2)
                          => v

\* C18, amended: isValidContent returns a boolean; it is false for a text
\* shorter than 50 characters, for a text with a loading indicator and for
\* a text with fewer than 2 non-blank stretches between the runs of
\* sentence-ending punctuation, and true for every other text of 50 to
\* 100000 characters.
C18_ValidContentSegments ==
    \A r \in Reqs :
        kind[r] = "validate" =>
            LET t == body[r].text
                v == response[r].payload
            IN  /\ response[r].type = "returned" /\ v \in BOOLEAN
                /\ IsString(t) =>
                     /\ StringLength(t) < 50 => ~ v
                     /\ HasIndicator(t) => ~ v
                     /\ NonBlankSegments(t) < 2 => ~ v
                     /\ (StringLength(t) >= 50 /\ StringLength(t) <= 100000
                            /\ ~ HasIndicator(t) /\ NonBlankSegments(t) >= 2)
                          => v

\* a text of 50 characters with one punctuation run between two sentences
C18_Witness ==
    \E r \in Reqs :
        /\ kind[r] = "validate"
        /\ body[r].text = <<"w47", ".", "a", "a">>
        /\ response[r].payload = TRUE

\* a reply that is null or blank
BlankReply(content) ==
    \/ content = NullText
    \/ \A i \in 1..Len(content) : Trim(content[i]) = <<>>

\* C19: an extraction makes at most one model call and sleeps only between
\* scrape attempts; when the call has thrown or replied nothing, the
\* request has ended with a structured error.
C19_NoModelRetry ==
    \A r \in Reqs :
        kind[r] = "extract" =>
            /\ Len(llmLog[r]) <= 1
            /\ \A i \in 1..Len(sleeps[r]) : sleeps[r][i] = browserRetryDelay
            /\ \A i \in 1..Len(llmLog[r]) :
                 LET call == llmLog[r][i] IN
                 /\ call.outcome # "pending" => pc[r] = "done"
                 /\ (call.outcome = "throw"
                        \/ (call.outcome = "ok" /\ BlankReply(call.content))) =>
                       /\ response[r].type = "error"
                       /\ WellFormedError(response[r].payload)
                       /\ response[r].payload.code = EXTRACTION_ERROR

\* the one model call replied a blank line and the request failed
C19_Witness ==
    \E r \in Reqs :
        /\ kind[r] = "extract" /\ pc[r] = "done"
        /\ Len(llmLog[r]) = 1
        /\ llmLog[r][1].outcome = "ok" /\ llmLog[r][1].content = << <<" ">> >>
        /\ response[r].payload.message = "No content extracted"

\* C20: no field of an error payload of an endpoint carries the message of
\* an exception thrown by the browser, the model client or normalizeUrl.
C20_NoInternalText ==
    \A r \in Reqs :
        (kind[r] \in {"extract", "query"} /\ pc[r] = "done"
            /\ response[r].type = "error") =>
            \A text \in { "net::ERR_NAME_NOT_RESOLVED",
                          "browser.close: Target closed",
                          "429 Rate limit exceeded", "Invalid URL input" } :
                /\ response[r].payload.message # text
                /\ response[r].payload.details # text

\* the string has the symbol
HasSymbol(s, c) == \E i \in 1..Len(s) : s[i] = c

\* C30: in every result of scrapePage, rawText has the section
\* "=== ABOUT PAGE CONTENT ===" exactly when rawHtml has the section
\* "<!-- ABOUT PAGE HTML -->".
C30_MergedTogether ==
    \A r \in Reqs :
        \A res \in ResultsOf(r) :
            HasSymbol(res.rawText, "\n\n=== ABOUT PAGE CONTENT ===\n\n")
                <=> HasSymbol(res.rawHtml, "\n\n<!-- ABOUT PAGE HTML -->\n\n")

\* the path of an http(s) URL: what follows the host name
PathOf(u) ==
    LET hostStart == IF StartsWith(u, <<"http", "s">>) THEN 6 ELSE 5
        slashes == { i \in hostStart..Len(u) : u[i] = "/" }
    IN  IF slashes = {}
        THEN <<"/">>
        ELSE SubSeq(u, CHOOSE i \in slashes : \A j \in slashes : i <= j, Len(u))

\* the path of the URL contains an about fragment, letter case ignored
PathIsAbout(u) == \E p \in ABOUT_PATHS : Includes(toLowerCase(PathOf(u)), p)

\* C28: a call of scrapePage with an http(s) URL treats it as an about page
\* exactly when the path of the URL contains an about fragment: a URL whose
\* path has none gives results of type "homepage", and its attempt looks
\* for about links once the homepage text is extracted; a URL whose path has
\* one gives results of type "about" and no discovery.
C28_ClassifiedByPath ==
    \A r \in Reqs :
        (Scraping(r) /\ spc[r] # "idle" /\ HasHttpScheme(url[r])) =>
            /\ \A res \in ResultsOf(r) :
                   res.sourceUrl.type =
                       IF PathIsAbout(url[r]) THEN "about" ELSE "homepage"
            /\ PathIsAbout(url[r]) => spc[r] \notin {"discover", "about"}

\* the mode the request asks for: "strict" when its body names none
RequestedMode(r) == IF body[r].mode = "#undefined" THEN "strict" ELSE body[r].mode

\* C29: every model call of a query or of an extraction whose mode is
\* "strict", or missing, has the temperature 0.15 and the strict system
\* prompt of its endpoint, and every one whose mode is "open" has the
\* temperature 0.7 and the open system prompt of its endpoint.
C29_ModeSelectsCall ==
    \A r \in Reqs :
        kind[r] \in {"query", "extract"} =>
            \A i \in 1..Len(llmLog[r]) :
                LET call == llmLog[r][i]
                    prompts == IF kind[r] = "query" THEN "queryPrompts"
                               ELSE "extractionPrompts"
                IN  /\ RequestedMode(r) = "strict" =>
                        /\ call.temperature = "0.15"
                        /\ call.system = prompts \o ".strict"
                    /\ RequestedMode(r) = "open" =>
                        /\ call.temperature = "0.7"
                        /\ call.system = prompts \o ".open"

\* an open query was answered at its second call
C29_Witness ==
    \E r \in Reqs :
        /\ kind[r] = "query" /\ body[r].mode = "open" /\ pc[r] = "done"
        /\ Len(llmLog[r]) = 2 /\ llmLog[r][2].outcome = "ok"
        /\ llmLog[r][2].temperature = "0.7"

\* the anchor's href parses as a URL whose path has an about fragment,
\* letter case ignored
IsAboutAnchor(a) ==
    a.parses /\ \E p \in ABOUT_PATHS :
        \E i \in 0..(Len(a.pathname) - Len(p)) :
            toLowerCase(SubSeq(a.pathname, i + 1, i + Len(p))) = p

\* the position of the first about anchor of the page with the href
FirstAt(anchors, href) ==
    LET at == { k \in 1..Len(anchors) :
                  IsAboutAnchor(anchors[k]) /\ anchors[k].href = href }
    IN  CHOOSE k \in at : \A j \in at : k <= j

IsHeaderLine(line) == Trim(line) # <<>> /\ Head(Trim(line)) \in {"-", "*"}

\* the positions of the ':' of a line
ColonsOf(t) == { i \in 1..Len(t) : t[i] = ":" }

\* what precedes the first ':' of a header line, without the marker,
\* trimmed and in upper case
HeaderName(line) ==
    LET t == Trim(line)
        before == IF ColonsOf(t) = {} THEN t
                  ELSE SubSeq(t, 1, (CHOOSE i \in ColonsOf(t) :
                                       \A j \in ColonsOf(t) : i <= j) - 1)
    IN  toUpperCase(Trim(Tail(before)))

\* what follows the first ':' of a header line
HeaderValue(line) ==
    LET t == Trim(line) IN
    IF ColonsOf(t) = {} THEN <<>>
    ELSE SubSeq(t, (CHOOSE i \in ColonsOf(t) : \A j \in ColonsOf(t) : i <= j) + 1,
                Len(t))

\* the non-blank lines from line k to the next header line, each after a
\* space
RECURSIVE Continuation(_, _)
Continuation(text, k) ==
    IF k > Len(text) \/ IsHeaderLine(text[k])
    THEN <<>>
    ELSE (IF Trim(text[k]) = <<>> THEN <<>> ELSE <<" ">> \o Trim(text[k]))
         \o Continuation(text, k + 1)

\* C25: the fields parseExtractedFields of the extraction endpoint returns
\* are named by the header lines of the text (the non-blank lines starting
\* with '-' or '*') that have a name: what precedes the first ':', without
\* the marker, trimmed, in upper case.  The value of a field is that of the
\* last header line with its name: what follows the first ':' of the line,
\* then every non-blank line up to the next header line, joined by single
\* spaces, trimmed.  Lines before the first header line are in no value.
C25_HeaderLines ==
    \A r \in Reqs :
        kind[r] = "parse" =>
            LET text == body[r].reply
                fields == response[r].payload
                named == { h \in 1..Len(text) :
                             IsHeaderLine(text[h]) /\ HeaderName(text[h]) # <<>> }
            IN  /\ DOMAIN fields = { HeaderName(text[h]) : h \in named }
                /\ \A n \in DOMAIN fields :
                     LET last == CHOOSE h \in named :
                                   /\ HeaderName(text[h]) = n
                                   /\ \A g \in named :
                                        HeaderName(text[g]) = n => g <= h
                     IN  fields[n] =
                             Trim(Trim(HeaderValue(text[last]))
                                  \o Continuation(text, last + 1))

\* a header line with two ':' followed by a line of text
C25_Witness ==
    \E r \in Reqs :
        /\ kind[r] = "parse"
        /\ body[r].reply = << <<"*", "Company Mission/Vision", ":", "x", ":", "y">>,
                             <<"x", " ", "y">> >>
        /\ response[r].payload[<<"COMPANY MISSION/VISION">>] =
               <<"x", ":", "y", " ", "x", " ", "y">>

\* the label of a registry field
LabelOf(key) ==
    CASE key = "mission" -> "COMPANY MISSION/VISION"
      [] key = "product" -> "PRODUCT DESCRIPTION"
      [] key = "value" -> "UNIQUE VALUE PROPOSITION"

\* C26: a field of the result of extractBusinessInfo, and of a successful
\* extraction, has a value other than the sentinel "N/A" only when the reply
\* of the model has a header naming the field's label: a line
\* "=== LABEL ===" for extractBusinessInfo, a header line whose name is the
\* label for the extraction endpoint.
C26_MappedByName ==
    \A r \in Reqs :
        \A key \in {"mission", "product", "value"} :
            /\ (kind[r] = "business" /\ response[r].type = "returned") =>
                   (response[r].payload[key] # <<"N/A">> =>
                       \E i \in 1..Len(llmLog[r][1].content) :
                           llmLog[r][1].content[i] =
                               <<"===", " ", LabelOf(key), " ", "===">>)
            /\ (kind[r] = "extract" /\ response[r].type = "success") =>
                   (response[r].payload.extractedFields[key] # <<"N/A">> =>
                       \E i \in 1..Len(llmLog[r][1].content) :
                           /\ IsHeaderLine(llmLog[r][1].content[i])
                           /\ HeaderName(llmLog[r][1].content[i]) = <<LabelOf(key)>>)

\* the value has a line of the form "=== ... ==="
HasSectionLine(v) ==
    \E i, j \in 1..Len(v) :
        /\ j >= i + 4
        /\ v[i] = "===" /\ v[i + 1] = " " /\ v[j - 1] = " " /\ v[j] = "==="
        /\ i = 1 \/ v[i - 1] = "\n"
        /\ j = Len(v) \/ v[j + 1] = "\n"
        /\ \A k \in i..j : v[k] # "\n"

\* the value is not empty, does not begin or end with whitespace and has
\* no line of the form "=== ... ==="
PlainValue(v) ==
    /\ v # <<>>
    /\ v[1] \notin {" ", "\n"} /\ v[Len(v)] \notin {" ", "\n"}
    /\ ~ HasSectionLine(v)

\* the parsed fields are the entries
Recovered(entries, fields) ==
    \A i \in 1..Len(entries) : fields[entries[i].key] = entries[i].value

\* C21 as the claim has it: for fields with every registry key, parsing the
\* text formatContext builds gives back every value.
C21_RoundTripAnyFields ==
    \A r \in Reqs :
        kind[r] = "roundtrip" => Recovered(body[r].fields, response[r].payload)

\* C21: for fields with the registry keys in the order of the registry whose
\* values are not empty, do not begin or end with whitespace and have no
\* line of the form "=== ... ===", parsing the text formatContext builds
\* gives back every value.
C21_RoundTripPlainFields ==
    \A r \in Reqs :
        (/\ kind[r] = "roundtrip"
         /\ [i \in 1..3 |-> body[r].fields[i].key] = <<"mission", "product", "value">>
         /\ \A i \in 1..3 : PlainValue(body[r].fields[i].value)) =>
            Recovered(body[r].fields, response[r].payload)

\* plain fields, one of two lines, and their round trip
C21_Witness ==
    \E r \in Reqs :
        /\ kind[r] = "roundtrip"
        /\ body[r].fields = << [key |-> "mission", value |-> <<"x", "\n", "y">>],
                               [key |-> "product", value |-> <<"N/A">>],
                               [key |-> "value", value |-> <<"x">>] >>
        /\ response[r].payload =
               [mission |-> <<"x", "\n", "y">>, product |-> <<"N/A">>, value |-> <<"x">>]

\* C23: an attempt of scrapePage turns to the about page only from the
\* discovery of links, which it left with a first link; it enters that
\* discovery only from the extraction of the homepage, whose text was then
\* extracted and is not blank; and once the about page is fetched the
\* attempt is over (its result or its error goes to the finally block), so
\* that an attempt fetches at most one about page.
C23_AboutAfterHomepage ==
    [][\A r \in Reqs :
          /\ (spc'[r] = "discover" /\ spc[r] # "discover") =>
                 /\ spc[r] = "extract"
                 /\ Trim(page'[r].rawText) # <<>>
                 /\ page'[r].rawHtml # <<>>
          /\ (spc'[r] = "about" /\ spc[r] # "about") =>
                 /\ spc[r] = "discover"
                 /\ Trim(page'[r].rawText) # <<>>
                 /\ page'[r].aboutLink # ""
                 /\ attempts'[r] = attempts[r]
          /\ (spc[r] = "about" /\ spc'[r] # "about") =>
                 /\ spc'[r] \in {"sleep", "finally"}
                 /\ pending'[r].type \in {"return", "throw", "caught"}
    ]_vars

\* the second attempt is about to fetch the about page of a homepage
C23_Witness ==
    \E r \in Reqs :
        /\ Scraping(r) /\ spc[r] = "about" /\ attempts[r] = 2
        /\ page[r].rawText = <<"home">>
        /\ page[r].aboutLink = "https://example.com/team"

\* what a call of scrapePage keeps for itself
LocalsOf(r) ==
    << spc[r], url[r], browser[r], retryCount[r], pending[r], page[r],
       sres[r], attempts[r], sleeps[r] >>

\* C22: when the steps of two calls of scrapePage interleave, the browser a
\* call holds is one it launched itself, each call makes at most 3 attempts
\* and counts at most 3 failures, and a step of one call changes neither
\* what the other call keeps (its position, browser, retry counter, page,
\* result) nor a browser the other call launched.
C22_CallsIndependent ==
    [][\A r \in Reqs :
          /\ browser'[r] # 0 => browsers'[browser'[r]].owner = r
          /\ attempts'[r] <= 3 /\ retryCount'[r] <= 3
          /\ \A q \in Reqs \ {r} :
                 LocalsOf(r)' # LocalsOf(r) =>
                     /\ LocalsOf(q)' = LocalsOf(q)
                     /\ \A b \in 1..Len(browsers) :
                            browsers[b].owner = q => browsers'[b] = browsers[b]
    ]_vars

\* the first call is in its third attempt and the second in its first, each
\* with a browser of its own open
C22_Witness ==
    /\ spc[1] = "extract" /\ retryCount[1] = 2 /\ attempts[1] = 3
    /\ spc[2] = "page" /\ retryCount[2] = 0 /\ attempts[2] = 1
    /\ browser[1] # browser[2]
    /\ browsers[browser[1]].owner = 1 /\ browsers[browser[1]].open
    /\ browsers[browser[2]].owner = 2 /\ browsers[browser[2]].open

\* C24: no call of scrapePage makes more than 3 attempts and no query more
\* than 3 model calls; a call of scrapePage that has ended has returned a
\* result or thrown a structured error (one with code, message and
\* timestamp); an extraction or a query that has ended was answered with a
\* result or with a structured error.
C24_EndsWithResultOrStructuredError ==
    \A r \in Reqs :
        /\ attempts[r] <= 3 /\ Len(llmLog[r]) <= 3
        /\ (kind[r] \in {"scrape", "extract"} /\ spc[r] = "done") =>
               \/ sres[r].type = "return"
               \/ /\ sres[r].type = "throw"
                  /\ {"code", "message", "timestamp"} \subseteq sres[r].error.keys
        /\ (kind[r] \in {"extract", "query"} /\ pc[r] = "done") =>
               \/ response[r].type = "success"
               \/ /\ response[r].type = "error"
                  /\ {"code", "message", "timestamp"} \subseteq response[r].payload.keys

\* C31: browser.close() is never invoked twice on a browser (the second
\* invocation would be that of a later attempt, on the browser of an earlier
\* one), and when a call of scrapePage has ended it was invoked once on
\* every browser the call launched.
C31_ClosedExactlyOnce ==
    \A r \in Reqs :
        \A b \in BrowsersOf(r) :
            /\ browsers[b].closes <= 1
            /\ spc[r] = "done" => browsers[b].closes = 1

\* C32: whatever browser.close() does in the finally block, an attempt that
\* built a result ends the call with that result returned, and a failed
\* attempt that is not the last is followed by the next attempt.
C32_CloseFailureHarmless ==
    [][\A r \in Reqs :
          (spc[r] = "finally" /\ spc'[r] # "finally") =>
              /\ pending[r].type = "return" =>
                     /\ spc'[r] = "done"
                     /\ sres'[r].type = "return"
                     /\ sres'[r].result = pending[r].result
              /\ (pending[r].type = "next" /\ retryCount[r] < 3) =>
                     /\ spc'[r] = "launching"
                     /\ attempts'[r] = attempts[r] + 1
    ]_vars

\* C33: an extraction has called the model only when its call of scrapePage
\* has ended by returning a result whose text is not blank, and then every
\* browser launched for the request is closed; an extraction whose call of
\* scrapePage threw, or has not ended, has not called the model.
C33_ModelAfterScrape ==
    \A r \in Reqs :
        kind[r] = "extract" =>
            /\ llmLog[r] # <<>> =>
                   /\ spc[r] = "done" /\ sres[r].type = "return"
                   /\ Trim(sres[r].result.rawText) # <<>>
                   /\ \A b \in 1..Len(browsers) :
                          browsers[b].owner = r =>
                              ~ browsers[b].open /\ browsers[b].closes >= 1
            /\ (spc[r] # "done" \/ sres[r].type # "return") => llmLog[r] = <<>>

\* an extraction that scraped at its second attempt and is calling the model
C33_Witness ==
    \E r \in Reqs :
        /\ kind[r] = "extract" /\ pc[r] = "llm"
        /\ Len(llmLog[r]) = 1 /\ llmLog[r][1].outcome = "pending"
        /\ attempts[r] = 2 /\ Cardinality(BrowsersOf(r)) = 2
        /\ sres[r].type = "return"

\* C34: while the fetch of handleExtract is in flight, loading is true and
\* error and extractedFields are null; when handleExtract has finished,
\* loading is false and exactly one of error and extractedFields is set.
C34_PageState ==
    /\ ui.at = "fetching" =>
           ui.loading /\ ui.error = <<>> /\ ui.extractedFields = <<>>
    /\ (ui.at = "idle" /\ ui.runs > 0) =>
           /\ ~ ui.loading
           /\ (ui.error # <<>>) # (ui.extractedFields # <<>>)

\* a second call of handleExtract has finished with the error message of
\* the endpoint
C34_Witness ==
    /\ ui.at = "idle" /\ ui.runs = 2 /\ ~ ui.loading
    /\ ui.error = <<"Failed to extract information">>
    /\ ui.extractedFields = <<>>

====
